---------------------------- MODULE Spec2Model ----------------------------
(***************************************************************************)
(* The employee service of seniorGolangEngineerAssignnment/main.go: an     *)
(* in-memory map of employee records and a counter, guarded by one         *)
(* sync.RWMutex, behind five HTTP handlers.  Every request is served by    *)
(* its own goroutine; a goroutine's position in its handler is pc.         *)
(***************************************************************************)
EXTENDS Integers, Sequences, FiniteSets, TLC

(***************************************************************************)
(* Go's int (64 bits on the builds this service targets), as IntSize/8     *)
(* limbs in base 2^8, least significant first, two's complement.  TLC's    *)
(* own integers are 32 bits wide, so every int of the program (the map's   *)
(* keys, Employee.ID, lastID, the path id, page and pageSize) is a limb    *)
(* sequence, and the arithmetic wraps exactly where the Go code wraps.     *)
(* The operators on whole ints bind their operands (CHOOSE, \E), so that   *)
(* an operand is evaluated once and not again at every use of one of its   *)
(* limbs.                                                                  *)
(***************************************************************************)
IntSize == 64

Base == 2^8

NLimbs == IntSize \div 8

RECURSIVE NatLimbs(_, _)
\* the k low limbs of the natural number n
NatLimbs(n, k) ==
    IF k = 0 THEN <<>> ELSE <<n % Base>> \o NatLimbs(n \div Base, k - 1)

RECURSIVE AddLimbs(_, _, _)
\* a + b + carry on limb sequences of equal length, the carry out dropped
AddLimbs(a, b, c) ==
    IF a = <<>> THEN <<>>
    ELSE LET s == Head(a) + Head(b) + c
         IN  <<s % Base>> \o AddLimbs(Tail(a), Tail(b), s \div Base)

RECURSIVE MulLimb(_, _, _)
\* a * d + carry for one limb d, the carry out dropped
MulLimb(a, d, c) ==
    IF a = <<>> THEN <<>>
    ELSE LET s == Head(a) * d + c
         IN  <<s % Base>> \o MulLimb(Tail(a), d, s \div Base)

RECURSIVE MulCarry(_, _, _)
\* the carry out of a * d + carry
MulCarry(a, d, c) ==
    IF a = <<>> THEN c ELSE MulCarry(Tail(a), d, (Head(a) * d + c) \div Base)

Zero64 == [i \in 1..NLimbs |-> 0]

Not64(a) == [i \in 1..NLimbs |-> Base - 1 - a[i]]

Add64(a, b) == CHOOSE s \in {AddLimbs(x, y, 0) : x \in {a}, y \in {b}} : TRUE

Neg64(a) == CHOOSE s \in {AddLimbs(x, Zero64, 1) : x \in {Not64(a)}} : TRUE

Sub64(a, b) == CHOOSE s \in {AddLimbs(x, y, 1) : x \in {a}, y \in {Not64(b)}} : TRUE

\* a * Base^k, the limbs shifted out at the top dropped
ShiftLimbs(a, k) == SubSeq([i \in 1..k |-> 0] \o a, 1, NLimbs)

RECURSIVE MulFrom(_, _, _)
\* the sum over i >= k of a * b[i] * Base^(i-1), modulo 2^IntSize
MulFrom(a, b, k) ==
    IF k > NLimbs THEN Zero64
    ELSE IF b[k] = 0 THEN MulFrom(a, b, k + 1)
    ELSE Add64(ShiftLimbs(MulLimb(a, b[k], 0), k - 1), MulFrom(a, b, k + 1))

Mul64(a, b) == CHOOSE s \in {MulFrom(x, y, 1) : x \in {a}, y \in {b}} : TRUE

IsNeg64(a) == a[NLimbs] >= Base \div 2

RECURSIVE LessLimbs(_, _, _)
\* unsigned a < b, compared from limb k downwards
LessLimbs(a, b, k) ==
    IF k = 0 THEN FALSE
    ELSE IF a[k] # b[k] THEN a[k] < b[k]
    ELSE LessLimbs(a, b, k - 1)

\* signed a < b
Less64(a, b) ==
    \E x \in {a}, y \in {b} :
        IF IsNeg64(x) # IsNeg64(y) THEN IsNeg64(x) ELSE LessLimbs(x, y, NLimbs)

MaxInt64 == [i \in 1..NLimbs |-> IF i = NLimbs THEN Base \div 2 - 1 ELSE Base - 1]

MinInt64 == [i \in 1..NLimbs |-> IF i = NLimbs THEN Base \div 2 ELSE 0]

\* the int of a number TLC can hold
ToGoInt(n) ==
    IF n >= 0 THEN NatLimbs(n, NLimbs) ELSE Neg64(NatLimbs(-n, NLimbs))

One64 == ToGoInt(1)

\* the ints 1..n
Ids(n) == {ToGoInt(i) : i \in 1..n}

\* the number of the int a, which is one of 0..max
IndexOf(a, max) == CHOOSE n \in 0..max : ToGoInt(n) = a

(***************************************************************************)
(* strconv.Atoi on a string given as its sequence of characters.  The text *)
(* is read from the left: a character that is no digit is a syntax error   *)
(* and yields 0; digits that leave 64 bits are a range error at that       *)
(* digit, whatever follows it; a value out of the range of int yields the  *)
(* nearest int AND an error (strconv.ParseInt), which the handlers that    *)
(* drop the error use.                                                     *)
(***************************************************************************)
DigitChars == <<"0", "1", "2", "3", "4", "5", "6", "7", "8", "9">>

IsDigit(ch) == \E d \in 1..10 : DigitChars[d] = ch

DigitVal(ch) == (CHOOSE d \in 1..10 : DigitChars[d] = ch) - 1

RECURSIVE ParseUint(_, _)
\* the characters of s read onto acc, an unsigned number of 64 bits: the
\* loop stops at the first character that is no digit, and at the first
\* digit with which acc * 10 + digit leaves 64 bits
ParseUint(s, acc) ==
    IF s = <<>> THEN [val |-> acc, err |-> "none"]
    ELSE IF ~IsDigit(Head(s)) THEN [val |-> Zero64, err |-> "syntax"]
    ELSE IF MulCarry(acc, 10, DigitVal(Head(s))) > 0
    THEN [val |-> Not64(Zero64), err |-> "range"]
    ELSE ParseUint(Tail(s), MulLimb(acc, 10, DigitVal(Head(s))))

Atoi(s) ==
    LET neg    == s # <<>> /\ Head(s) = "-"
        signed == s # <<>> /\ Head(s) \in {"-", "+"}
        digits == IF signed THEN Tail(s) ELSE s
    IN  IF digits = <<>> THEN [val |-> Zero64, err |-> TRUE]
        ELSE LET u == ParseUint(digits, Zero64)
             IN  \* ParseInt: un >= 1 << 63, and un > 1 << 63 after a minus
                 IF u.err = "syntax" THEN [val |-> Zero64, err |-> TRUE]
                 ELSE IF ~neg /\ IsNeg64(u.val)
                 THEN [val |-> MaxInt64, err |-> TRUE]
                 ELSE IF neg /\ IsNeg64(u.val) /\ u.val # MinInt64
                 THEN [val |-> MinInt64, err |-> TRUE]
                 ELSE [val |-> IF neg THEN Neg64(u.val) ELSE u.val,
                       err |-> FALSE]

(***************************************************************************)
(* Bounds of the model.                                                    *)
(***************************************************************************)
\* goroutines that create at the same time in CreateSpec
NumGoroutines == 3

\* creates are accepted while lastID can stay at or below MaxID
MaxID == 2

\* records in the store a ListOnlySpec run starts from
MaxTotal == 4

Goroutines == 1..NumGoroutines

(***************************************************************************)
(* net/http status codes the handlers write.                               *)
(***************************************************************************)
StatusOK == 200

StatusNoContent == 204

StatusBadRequest == 400

StatusNotFound == 404

StatusUnsupportedMediaType == 415

(***************************************************************************)
(* type Employee struct, and its JSON form.  A request body is either      *)
(* undecodable (valid = FALSE) or a JSON object holding some of the keys   *)
(* id, name, position, salary; Decode leaves the zero value in a field     *)
(* whose key is missing, Encode writes all four keys.                      *)
(***************************************************************************)
ZeroEmployee == [ID |-> Zero64, Name |-> "", Position |-> "", Salary |-> 0]

NoObject == [k \in {} |-> 0]

Decode(body) ==
    IF ~body.valid THEN [err |-> TRUE, emp |-> ZeroEmployee]
    ELSE LET o == body.obj
             Has(k) == k \in DOMAIN o
         IN  [err |-> FALSE,
              emp |-> [ID       |-> IF Has("id") THEN ToGoInt(o["id"]) ELSE Zero64,
                       Name     |-> IF Has("name") THEN o["name"] ELSE "",
                       Position |-> IF Has("position") THEN o["position"] ELSE "",
                       Salary   |-> IF Has("salary") THEN o["salary"] ELSE 0]]

\* an encoder that leaves the salary out
EncodeNoSalary(emp) ==
    [id |-> emp.ID, name |-> emp.Name, position |-> emp.Position, salary |-> 0]

Encode(emp) ==
    [id |-> emp.ID, name |-> emp.Name, position |-> emp.Position,
     salary |-> emp.Salary]

(***************************************************************************)
(* The inputs requests are drawn from.                                     *)
(***************************************************************************)
\* both payloads carry an identifier of their own, which no create issues
BodyAnn == [valid |-> TRUE,
            obj |-> [id |-> 9, name |-> "Ann", position |-> "Dev", salary |-> 100]]

BodyBob == [valid |-> TRUE,
            obj |-> [id |-> 7, name |-> "Bob", position |-> "Ops", salary |-> 200]]

BodyBad == [valid |-> FALSE, obj |-> NoObject]

\* what the requests of Spec post and put
CreateBodies == {BodyAnn, BodyBad}

UpdateBodies == {BodyBob, BodyBad}

ContentTypes == {"application/json", "text/plain", "application/json; charset=utf-8"}

\* the two goroutines of Spec
Pair == {1, 2}

\* the decimal text of a one-digit number
IdText(n) == <<DigitChars[n + 1]>>

\* 2^62+1: an int that no counter of the model reaches
TextBig ==
    <<"4","6","1","1","6","8","6","0","1","8","4","2","7","3","8","7","9","0","5">>

\* the path ids of the requests of Spec: the identifiers the creates of Spec
\* give out, no number, and a number that is never an identifier
PathIds == {IdText(n) : n \in 1..MaxID} \cup {<<"x">>, TextBig}

\* the id, Content-Type and body of the PUT requests of Spec: every valid
\* request, and one request for each order in which two checks can fail
UpdateInputs ==
    {<<id, "application/json", BodyBob>> : id \in PathIds \ {<<"x">>}}
    \cup { <<<<"x">>, "text/plain", BodyBad>>,
           <<IdText(1), "text/plain", BodyBad>>,
           <<IdText(1), "application/json", BodyBad>> }

\* the page and pageSize of the GET /employees requests of Spec
ListInputs == {<< <<>>, <<>> >>, << <<"2">>, <<"1">> >>}

\* decimal texts at the ends of int: 2^63-1, 2^63, -2^63-1
TextMax ==
    <<"9","2","2","3","3","7","2","0","3","6","8","5","4","7","7","5","8","0","7">>

TextOver ==
    <<"9","2","2","3","3","7","2","0","3","6","8","5","4","7","7","5","8","0","8">>

TextUnder ==
    <<"-","9","2","2","3","3","7","2","0","3","6","8","5","4","7","7","5","8","0","9">>

\* 2^63 and a letter: the digits stay within 64 bits, so the letter is read
TextWideX ==
    <<"9","2","2","3","3","7","2","0","3","6","8","5","4","7","7","5","8","0","8","x">>

\* 2^64 and a letter, without and with a minus: the digits leave 64 bits
\* before the letter is read
TextOverX ==
    <<"1","8","4","4","6","7","4","4","0","7","3","7","0","9","5","5","1","6","1","6","x">>

TextUnderX ==
    <<"-","1","8","4","4","6","7","4","4","0","7","3","7","0","9","5","5","1","6","1","6","x">>

\* page and pageSize texts of ListOnlySpec: absent, not a number, below 1,
\* small, large, out of range, and digits followed by a letter
QueryTexts ==
    { <<>>, <<"x">>, <<"0">>, <<"-", "1">>, <<"1">>, <<"2">>, <<"3">>, <<"4">>,
      TextBig, TextMax, TextOver, TextUnder, TextWideX, TextOverX, TextUnderX }

(***************************************************************************)
(* State.  employees, mutex and lastID are the package variables of        *)
(* main.go:45-49.  A map entry is a pointer to an Employee that no code    *)
(* writes to once it is in the map (update stores a new pointer), so the   *)
(* map is modelled as holding the records themselves.                      *)
(***************************************************************************)
VARIABLES
    employees,  \* map[int]*Employee: a function from its keys to records
    lastID,     \* the counter
    mutex,      \* sync.RWMutex: a writer holds it, or some readers do
    pc,         \* per goroutine: where it stands in its handler
    req,        \* per goroutine: the request it serves
    loc,        \* per goroutine: the handler's local variables
    resp,       \* per goroutine: what it has written to its ResponseWriter
    issued,     \* history: the identifiers creates have assigned
    received,   \* history: the identifiers create responses have carried
    nReceived,  \* history: how many create responses carried an identifier
    expect,     \* history: per id, the payload of the last write to it
    deleted,    \* history: the identifiers a delete has answered 204 for
    startID     \* history: lastID when the run began

vars == <<employees, lastID, mutex, pc, req, loc, resp,
          issued, received, nReceived, expect, deleted, startID>>

hist == <<issued, received, nReceived, expect, deleted, startID>>

NoReq == [op |-> "none", id |-> <<>>, ctype |-> "", body |-> BodyBad,
          page |-> <<>>, pageSize |-> <<>>]

NoLoc == [id |-> Zero64, emp |-> ZeroEmployee, page |-> Zero64, pageSize |-> Zero64,
          employeeList |-> <<>>, ranged |-> {}]

\* nothing written yet
NoResp == [status |-> 0, kind |-> "none", body |-> <<>>]

\* http.Error: a status and a text body
ErrorResp(code) == [status |-> code, kind |-> "text", body |-> <<>>]

\* json.NewEncoder(w).Encode(emp) on an untouched ResponseWriter
ObjectResp(emp) == [status |-> StatusOK, kind |-> "object", body |-> <<Encode(emp)>>]

\* json.NewEncoder(w).Encode(results)
ArrayResp(list) ==
    [status |-> StatusOK, kind |-> "array",
     body |-> [i \in 1..Len(list) |-> Encode(list[i])]]

\* the handler panicked before writing: net/http drops the connection
PanicResp == [status |-> 0, kind |-> "panic", body |-> <<>>]

Put(f, k, v) == [x \in DOMAIN f \cup {k} |-> IF x = k THEN v ELSE f[x]]

Remove(f, k) == [x \in DOMAIN f \ {k} |-> f[x]]

\* what a client expects back for payload object o written under id
Expected(o, id) ==
    [id |-> id,
     name |-> IF "name" \in DOMAIN o THEN o["name"] ELSE "",
     position |-> IF "position" \in DOMAIN o THEN o["position"] ELSE "",
     salary |-> IF "salary" \in DOMAIN o THEN o["salary"] ELSE 0]

(***************************************************************************)
(* sync.RWMutex.                                                           *)
(***************************************************************************)
CanLock == ~mutex.writer /\ mutex.readers = 0

CanRLock == ~mutex.writer

Locked == [mutex EXCEPT !.writer = TRUE]

Unlocked == [mutex EXCEPT !.writer = FALSE]

RLocked == [mutex EXCEPT !.readers = @ + 1]

RUnlocked == [mutex EXCEPT !.readers = @ - 1]

\* the handler returns: the goroutine is free for the next request
Finish(p) ==
    /\ pc' = [pc EXCEPT ![p] = "idle"]
    /\ req' = [req EXCEPT ![p] = NoReq]
    /\ loc' = [loc EXCEPT ![p] = NoLoc]
    /\ resp' = [resp EXCEPT ![p] = NoResp]

\* an early return after http.Error
Reject(p, r, code) ==
    /\ pc' = [pc EXCEPT ![p] = "return"]
    /\ req' = [req EXCEPT ![p] = r]
    /\ resp' = [resp EXCEPT ![p] = ErrorResp(code)]
    /\ UNCHANGED loc

Return(p) ==
    /\ pc[p] = "return"
    /\ Finish(p)
    /\ UNCHANGED <<employees, lastID, mutex, hist>>

(***************************************************************************)
(* CreateEmployee, main.go:53-68.                                          *)
(***************************************************************************)
\* creates that will still increment lastID
PendingCreates == Cardinality({q \in Goroutines : pc[q] \in {"c_lock", "c_inc"}})

\* a create that takes the next identifier before it decodes its payload
CreateDecodeCounts(p, body, cap) ==
    LET r == [NoReq EXCEPT !.op = "create", !.body = body]
        d == Decode(body)
    IN  /\ pc[p] = "idle"
        /\ Less64(Add64(lastID, ToGoInt(PendingCreates)), ToGoInt(cap))
        /\ lastID' = Add64(lastID, One64)
        /\ IF d.err
           THEN Reject(p, r, StatusBadRequest)
           ELSE /\ pc' = [pc EXCEPT ![p] = "c_lock"]
                /\ req' = [req EXCEPT ![p] = r]
                /\ loc' = [loc EXCEPT ![p].emp = d.emp]
                /\ UNCHANGED resp
        /\ UNCHANGED <<employees, mutex, hist>>

\* cap: the model accepts a create while lastID can stay at or below it
CreateDecode(p, body, cap) ==
    LET r == [NoReq EXCEPT !.op = "create", !.body = body]
        d == Decode(body)
    IN  /\ pc[p] = "idle"
        /\ IF d.err
           THEN Reject(p, r, StatusBadRequest)
           ELSE /\ Less64(Add64(lastID, ToGoInt(PendingCreates)), ToGoInt(cap))
                /\ pc' = [pc EXCEPT ![p] = "c_lock"]
                /\ req' = [req EXCEPT ![p] = r]
                /\ loc' = [loc EXCEPT ![p].emp = d.emp]
                /\ UNCHANGED resp
        /\ UNCHANGED <<employees, lastID, mutex, hist>>

\* CreateEmployee without mutual exclusion: it goes on whoever holds the mutex
CreateLockRacy(p) ==
    /\ pc[p] = "c_lock"
    /\ mutex' = Locked
    /\ pc' = [pc EXCEPT ![p] = "c_inc"]
    /\ UNCHANGED <<employees, lastID, req, loc, resp, hist>>

CreateLock(p) ==
    /\ pc[p] = "c_lock"
    /\ CanLock
    /\ mutex' = Locked
    /\ pc' = [pc EXCEPT ![p] = "c_inc"]
    /\ UNCHANGED <<employees, lastID, req, loc, resp, hist>>

\* the next identifier taken from the size of the map instead of the counter
CreateIncByLen(p) ==
    /\ pc[p] = "c_inc"
    /\ lastID' = ToGoInt(Cardinality(DOMAIN employees) + 1)
    /\ pc' = [pc EXCEPT ![p] = "c_setid"]
    /\ UNCHANGED <<employees, mutex, req, loc, resp, hist>>

\* lastID++ under a lock of its own: the mutex is let go before the insertion
CreateIncUnlocks(p) ==
    /\ pc[p] = "c_inc"
    /\ lastID' = Add64(lastID, One64)
    /\ mutex' = Unlocked
    /\ pc' = [pc EXCEPT ![p] = "c_setid"]
    /\ UNCHANGED <<employees, req, loc, resp, hist>>

\* lastID++
CreateInc(p) ==
    /\ pc[p] = "c_inc"
    /\ lastID' = Add64(lastID, One64)
    /\ pc' = [pc EXCEPT ![p] = "c_setid"]
    /\ UNCHANGED <<employees, mutex, req, loc, resp, hist>>

\* a create that keeps the identifier its payload carried
CreateSetIDKeeps(p) ==
    /\ pc[p] = "c_setid"
    /\ issued' = issued \cup {lastID}
    /\ pc' = [pc EXCEPT ![p] = "c_insert"]
    /\ UNCHANGED <<employees, lastID, mutex, req, loc, resp,
                   received, nReceived, expect, deleted, startID>>

\* emp.ID = lastID
CreateSetID(p) ==
    /\ pc[p] = "c_setid"
    /\ loc' = [loc EXCEPT ![p].emp.ID = lastID]
    /\ issued' = issued \cup {lastID}
    /\ pc' = [pc EXCEPT ![p] = "c_insert"]
    /\ UNCHANGED <<employees, lastID, mutex, req, resp,
                   received, nReceived, expect, deleted, startID>>

\* employees[emp.ID] = &emp
CreateInsert(p) ==
    /\ pc[p] = "c_insert"
    /\ employees' = Put(employees, loc[p].emp.ID, loc[p].emp)
    /\ expect' = Put(expect, loc[p].emp.ID,
                     [src |-> "create",
                      obj |-> Expected(req[p].body.obj, loc[p].emp.ID)])
    /\ pc' = [pc EXCEPT ![p] = "c_unlock"]
    /\ UNCHANGED <<lastID, mutex, req, loc, resp,
                   issued, received, nReceived, deleted, startID>>

CreateUnlock(p) ==
    /\ pc[p] = "c_unlock"
    /\ mutex' = Unlocked
    /\ pc' = [pc EXCEPT ![p] = "c_encode"]
    /\ UNCHANGED <<employees, lastID, req, loc, resp, hist>>

\* json.NewEncoder(w).Encode(emp), outside the lock
CreateEncode(p) ==
    /\ pc[p] = "c_encode"
    /\ resp' = [resp EXCEPT ![p] = ObjectResp(loc[p].emp)]
    /\ received' = received \cup {loc[p].emp.ID}
    /\ nReceived' = nReceived + 1
    /\ pc' = [pc EXCEPT ![p] = "return"]
    /\ UNCHANGED <<employees, lastID, mutex, req, loc, issued, expect, deleted,
                   startID>>

CreateEmployee(p, bodies, cap) ==
    \/ \E body \in bodies : CreateDecode(p, body, cap)
    \/ CreateLock(p)
    \/ CreateInc(p)
    \/ CreateSetID(p)
    \/ CreateInsert(p)
    \/ CreateUnlock(p)
    \/ CreateEncode(p)

(***************************************************************************)
(* GetEmployeeByID, main.go:70-92.  The deferred RUnlock runs last.        *)
(***************************************************************************)
GetParse(p, idText) ==
    LET r == [NoReq EXCEPT !.op = "get", !.id = idText]
        a == Atoi(idText)
    IN  /\ pc[p] = "idle"
        /\ IF a.err
           THEN Reject(p, r, StatusBadRequest)
           ELSE /\ pc' = [pc EXCEPT ![p] = "g_rlock"]
                /\ req' = [req EXCEPT ![p] = r]
                /\ loc' = [loc EXCEPT ![p].id = a.val]
                /\ UNCHANGED resp
        /\ UNCHANGED <<employees, lastID, mutex, hist>>

GetRLock(p) ==
    /\ pc[p] = "g_rlock"
    /\ CanRLock
    /\ mutex' = RLocked
    /\ pc' = [pc EXCEPT ![p] = "g_lookup"]
    /\ UNCHANGED <<employees, lastID, req, loc, resp, hist>>

\* emp, ok := employees[id]
GetLookup(p) ==
    /\ pc[p] = "g_lookup"
    /\ IF loc[p].id \in DOMAIN employees
       THEN /\ loc' = [loc EXCEPT ![p].emp = employees[loc[p].id]]
            /\ pc' = [pc EXCEPT ![p] = "g_encode"]
            /\ UNCHANGED resp
       ELSE /\ resp' = [resp EXCEPT ![p] = ErrorResp(StatusNotFound)]
            /\ pc' = [pc EXCEPT ![p] = "g_runlock"]
            /\ UNCHANGED loc
    /\ UNCHANGED <<employees, lastID, mutex, req, hist>>

GetEncode(p) ==
    /\ pc[p] = "g_encode"
    /\ resp' = [resp EXCEPT ![p] = ObjectResp(loc[p].emp)]
    /\ pc' = [pc EXCEPT ![p] = "g_runlock"]
    /\ UNCHANGED <<employees, lastID, mutex, req, loc, hist>>

GetRUnlock(p) ==
    /\ pc[p] = "g_runlock"
    /\ mutex' = RUnlocked
    /\ Finish(p)
    /\ UNCHANGED <<employees, lastID, hist>>

GetEmployeeByID(p, ids) ==
    \/ \E idText \in ids : GetParse(p, idText)
    \/ GetRLock(p)
    \/ GetLookup(p)
    \/ GetEncode(p)
    \/ GetRUnlock(p)

(***************************************************************************)
(* UpdateEmployee, main.go:94-129.  The deferred Unlock runs last.         *)
(***************************************************************************)
\* UpdateEmployee without main.go:115: the payload keeps its own identifier
UpdateParseKeepsID(p, idText, ctype, body) ==
    LET r == [NoReq EXCEPT !.op = "update", !.id = idText, !.ctype = ctype,
                           !.body = body]
        a == Atoi(idText)
        d == Decode(body)
    IN  /\ pc[p] = "idle"
        /\ IF a.err THEN Reject(p, r, StatusBadRequest)
           ELSE IF ctype # "application/json"
           THEN Reject(p, r, StatusUnsupportedMediaType)
           ELSE IF d.err THEN Reject(p, r, StatusBadRequest)
           ELSE /\ pc' = [pc EXCEPT ![p] = "u_lock"]
                /\ req' = [req EXCEPT ![p] = r]
                /\ loc' = [loc EXCEPT ![p].id = a.val,
                                      ![p].emp = d.emp]
                /\ UNCHANGED resp
        /\ UNCHANGED <<employees, lastID, mutex, hist>>

\* UpdateEmployee with the Content-Type looked at before the id
UpdateParseTypeFirst(p, idText, ctype, body) ==
    LET r == [NoReq EXCEPT !.op = "update", !.id = idText, !.ctype = ctype,
                           !.body = body]
        a == Atoi(idText)
        d == Decode(body)
    IN  /\ pc[p] = "idle"
        /\ IF ctype # "application/json"
           THEN Reject(p, r, StatusUnsupportedMediaType)
           ELSE IF a.err THEN Reject(p, r, StatusBadRequest)
           ELSE IF d.err THEN Reject(p, r, StatusBadRequest)
           ELSE /\ pc' = [pc EXCEPT ![p] = "u_lock"]
                /\ req' = [req EXCEPT ![p] = r]
                /\ loc' = [loc EXCEPT ![p].id = a.val,
                                      ![p].emp = [d.emp EXCEPT !.ID = a.val]]
                /\ UNCHANGED resp
        /\ UNCHANGED <<employees, lastID, mutex, hist>>

UpdateParse(p, idText, ctype, body) ==
    LET r == [NoReq EXCEPT !.op = "update", !.id = idText, !.ctype = ctype,
                           !.body = body]
        a == Atoi(idText)
        d == Decode(body)
    IN  /\ pc[p] = "idle"
        /\ IF a.err THEN Reject(p, r, StatusBadRequest)
           ELSE IF ctype # "application/json"
           THEN Reject(p, r, StatusUnsupportedMediaType)
           ELSE IF d.err THEN Reject(p, r, StatusBadRequest)
           ELSE /\ pc' = [pc EXCEPT ![p] = "u_lock"]
                /\ req' = [req EXCEPT ![p] = r]
                /\ loc' = [loc EXCEPT ![p].id = a.val,
                                      ![p].emp = [d.emp EXCEPT !.ID = a.val]]
                /\ UNCHANGED resp
        /\ UNCHANGED <<employees, lastID, mutex, hist>>

\* UpdateEmployee without mutual exclusion
UpdateLockRacy(p) ==
    /\ pc[p] = "u_lock"
    /\ mutex' = Locked
    /\ pc' = [pc EXCEPT ![p] = "u_check"]
    /\ UNCHANGED <<employees, lastID, req, loc, resp, hist>>

UpdateLock(p) ==
    /\ pc[p] = "u_lock"
    /\ CanLock
    /\ mutex' = Locked
    /\ pc' = [pc EXCEPT ![p] = "u_check"]
    /\ UNCHANGED <<employees, lastID, req, loc, resp, hist>>

\* an update that stores whether or not the id is there
UpdateCheckUpsert(p) ==
    /\ pc[p] = "u_check"
    /\ pc' = [pc EXCEPT ![p] = "u_store"]
    /\ UNCHANGED <<employees, lastID, mutex, req, loc, resp, hist>>

\* if _, ok := employees[id]; !ok
UpdateCheck(p) ==
    /\ pc[p] = "u_check"
    /\ IF loc[p].id \in DOMAIN employees
       THEN /\ pc' = [pc EXCEPT ![p] = "u_store"]
            /\ UNCHANGED resp
       ELSE /\ resp' = [resp EXCEPT ![p] = ErrorResp(StatusNotFound)]
            /\ pc' = [pc EXCEPT ![p] = "u_unlock"]
    /\ UNCHANGED <<employees, lastID, mutex, req, loc, hist>>

\* an update that takes a new identifier from the counter as it stores
UpdateStoreCounts(p) ==
    /\ pc[p] = "u_store"
    /\ employees' = Put(employees, loc[p].id, loc[p].emp)
    /\ lastID' = Add64(lastID, One64)
    /\ resp' = [resp EXCEPT ![p] = ObjectResp(loc[p].emp)]
    /\ expect' = Put(expect, loc[p].id,
                     [src |-> "update",
                      obj |-> Expected(req[p].body.obj, loc[p].id)])
    /\ pc' = [pc EXCEPT ![p] = "u_unlock"]
    /\ UNCHANGED <<mutex, req, loc, issued, received, nReceived, deleted,
                   startID>>

\* employees[id] = &updatedEmp, and the response
UpdateStore(p) ==
    /\ pc[p] = "u_store"
    /\ employees' = Put(employees, loc[p].id, loc[p].emp)
    /\ resp' = [resp EXCEPT ![p] = ObjectResp(loc[p].emp)]
    /\ expect' = Put(expect, loc[p].id,
                     [src |-> "update",
                      obj |-> Expected(req[p].body.obj, loc[p].id)])
    /\ pc' = [pc EXCEPT ![p] = "u_unlock"]
    /\ UNCHANGED <<lastID, mutex, req, loc, issued, received, nReceived, deleted,
                   startID>>

UpdateUnlock(p) ==
    /\ pc[p] = "u_unlock"
    /\ mutex' = Unlocked
    /\ Finish(p)
    /\ UNCHANGED <<employees, lastID, hist>>

UpdateEmployee(p, inputs) ==
    \/ \E in \in inputs : UpdateParse(p, in[1], in[2], in[3])
    \/ UpdateLock(p)
    \/ UpdateCheck(p)
    \/ UpdateStore(p)
    \/ UpdateUnlock(p)

(***************************************************************************)
(* DeleteEmployee, main.go:131-151.  The deferred Unlock runs last.        *)
(***************************************************************************)
DeleteParse(p, idText) ==
    LET r == [NoReq EXCEPT !.op = "delete", !.id = idText]
        a == Atoi(idText)
    IN  /\ pc[p] = "idle"
        /\ IF a.err
           THEN Reject(p, r, StatusBadRequest)
           ELSE /\ pc' = [pc EXCEPT ![p] = "d_lock"]
                /\ req' = [req EXCEPT ![p] = r]
                /\ loc' = [loc EXCEPT ![p].id = a.val]
                /\ UNCHANGED resp
        /\ UNCHANGED <<employees, lastID, mutex, hist>>

DeleteLock(p) ==
    /\ pc[p] = "d_lock"
    /\ CanLock
    /\ mutex' = Locked
    /\ pc' = [pc EXCEPT ![p] = "d_check"]
    /\ UNCHANGED <<employees, lastID, req, loc, resp, hist>>

\* if _, ok := employees[id]; !ok
DeleteCheck(p) ==
    /\ pc[p] = "d_check"
    /\ IF loc[p].id \in DOMAIN employees
       THEN /\ pc' = [pc EXCEPT ![p] = "d_delete"]
            /\ UNCHANGED resp
       ELSE /\ resp' = [resp EXCEPT ![p] = ErrorResp(StatusNotFound)]
            /\ pc' = [pc EXCEPT ![p] = "d_unlock"]
    /\ UNCHANGED <<employees, lastID, mutex, req, loc, hist>>

\* a delete that answers 204 and leaves the record in the map
DeleteRemoveKeeps(p) ==
    /\ pc[p] = "d_delete"
    /\ resp' = [resp EXCEPT ![p] = [status |-> StatusNoContent, kind |-> "none",
                                    body |-> <<>>]]
    /\ expect' = Remove(expect, loc[p].id)
    /\ deleted' = deleted \cup {loc[p].id}
    /\ pc' = [pc EXCEPT ![p] = "d_unlock"]
    /\ UNCHANGED <<employees, lastID, mutex, req, loc, issued, received,
                   nReceived, startID>>

\* a delete that empties the map
DeleteRemoveAll(p) ==
    /\ pc[p] = "d_delete"
    /\ employees' = <<>>
    /\ resp' = [resp EXCEPT ![p] = [status |-> StatusNoContent, kind |-> "none",
                                    body |-> <<>>]]
    /\ expect' = Remove(expect, loc[p].id)
    /\ deleted' = deleted \cup {loc[p].id}
    /\ pc' = [pc EXCEPT ![p] = "d_unlock"]
    /\ UNCHANGED <<lastID, mutex, req, loc, issued, received, nReceived, startID>>

\* delete(employees, id), and the 204
DeleteRemove(p) ==
    /\ pc[p] = "d_delete"
    /\ employees' = Remove(employees, loc[p].id)
    /\ resp' = [resp EXCEPT ![p] = [status |-> StatusNoContent, kind |-> "none",
                                    body |-> <<>>]]
    /\ expect' = Remove(expect, loc[p].id)
    /\ deleted' = deleted \cup {loc[p].id}
    /\ pc' = [pc EXCEPT ![p] = "d_unlock"]
    /\ UNCHANGED <<lastID, mutex, req, loc, issued, received, nReceived, startID>>

DeleteUnlock(p) ==
    /\ pc[p] = "d_unlock"
    /\ mutex' = Unlocked
    /\ Finish(p)
    /\ UNCHANGED <<employees, lastID, hist>>

DeleteEmployee(p, ids) ==
    \/ \E idText \in ids : DeleteParse(p, idText)
    \/ DeleteLock(p)
    \/ DeleteCheck(p)
    \/ DeleteRemove(p)
    \/ DeleteUnlock(p)

(***************************************************************************)
(* ListEmployees, main.go:154-191.  The deferred RUnlock runs last, also   *)
(* when the slice expression panics.                                       *)
(***************************************************************************)
\* main.go:155-158: the error of Atoi is dropped
ParsePage(text) ==
    LET page == Atoi(text).val
    IN  IF Less64(page, One64) THEN One64 ELSE page

\* a pageSize below 1 raised to 1 instead of replaced by the default
ParsePageSizeClamped(text) ==
    LET pageSize == Atoi(text).val
    IN  IF Less64(pageSize, One64) THEN One64 ELSE pageSize

\* main.go:159-162
ParsePageSize(text) ==
    LET pageSize == Atoi(text).val
    IN  IF Less64(pageSize, One64) THEN ToGoInt(10) ELSE pageSize

\* main.go:172-190 on the collected employeeList; startIdx is bound so that the
\* product is computed once
Paginate(employeeList, page, pageSize) ==
    LET Slice(totalEmployees, startIdx, endSum) ==
            LET endIdx == IF Less64(totalEmployees, endSum) THEN totalEmployees
                          ELSE endSum
            IN  IF ~Less64(startIdx, totalEmployees)
                THEN [panic |-> FALSE, results |-> <<>>]
                ELSE IF IsNeg64(startIdx) \/ Less64(endIdx, startIdx)
                THEN \* employeeList[startIdx:endIdx]: slice bounds out of range
                     [panic |-> TRUE, results |-> <<>>]
                ELSE [panic |-> FALSE,
                      results |-> SubSeq(employeeList,
                                         IndexOf(startIdx, Len(employeeList)) + 1,
                                         IndexOf(endIdx, Len(employeeList)))]
    IN  CHOOSE r \in
            {Slice(ToGoInt(Len(employeeList)), startIdx, Add64(startIdx, pageSize)) :
                startIdx \in {Mul64(Sub64(page, One64), pageSize)}} : TRUE

ListParse(p, pageText, sizeText) ==
    /\ pc[p] = "idle"
    /\ pc' = [pc EXCEPT ![p] = "l_rlock"]
    /\ req' = [req EXCEPT ![p] = [NoReq EXCEPT !.op = "list", !.page = pageText,
                                               !.pageSize = sizeText]]
    /\ loc' = [loc EXCEPT ![p].page = ParsePage(pageText),
                          ![p].pageSize = ParsePageSize(sizeText)]
    /\ UNCHANGED <<employees, lastID, mutex, resp, hist>>

\* ListEmployees without the read lock: it goes on while a writer is inside
ListRLockRacy(p) ==
    /\ pc[p] = "l_rlock"
    /\ mutex' = RLocked
    /\ pc' = [pc EXCEPT ![p] = "l_range"]
    /\ UNCHANGED <<employees, lastID, req, loc, resp, hist>>

ListRLock(p) ==
    /\ pc[p] = "l_rlock"
    /\ CanRLock
    /\ mutex' = RLocked
    /\ pc' = [pc EXCEPT ![p] = "l_range"]
    /\ UNCHANGED <<employees, lastID, req, loc, resp, hist>>

\* one iteration of "for _, emp := range employees": Go visits the keys of a
\* map in an order it does not specify
ListRange(p) ==
    /\ pc[p] = "l_range"
    /\ \E k \in DOMAIN employees \ loc[p].ranged :
          loc' = [loc EXCEPT ![p].employeeList = Append(@, employees[k]),
                             ![p].ranged = @ \cup {k}]
    /\ UNCHANGED <<employees, lastID, mutex, pc, req, resp, hist>>

\* the range is over: the page is cut and written
ListPage(p) ==
    /\ pc[p] = "l_range"
    /\ DOMAIN employees \ loc[p].ranged = {}
    /\ \E page \in {Paginate(loc[p].employeeList, loc[p].page, loc[p].pageSize)} :
          resp' = [resp EXCEPT ![p] = IF page.panic THEN PanicResp
                                     ELSE ArrayResp(page.results)]
    /\ pc' = [pc EXCEPT ![p] = "l_runlock"]
    /\ UNCHANGED <<employees, lastID, mutex, req, loc, hist>>

ListRUnlock(p) ==
    /\ pc[p] = "l_runlock"
    /\ mutex' = RUnlocked
    /\ Finish(p)
    /\ UNCHANGED <<employees, lastID, hist>>

ListEmployees(p, inputs) ==
    \/ \E in \in inputs : ListParse(p, in[1], in[2])
    \/ ListRLock(p)
    \/ ListRange(p)
    \/ ListPage(p)
    \/ ListRUnlock(p)

(***************************************************************************)
(* The service: any goroutine takes the next step of its handler.          *)
(***************************************************************************)
\* the store after n creates of BodyAnn, with the history of those creates
Filled(n) ==
    /\ employees = [k \in Ids(n) |-> [Decode(BodyAnn).emp EXCEPT !.ID = k]]
    /\ lastID = ToGoInt(n)
    /\ mutex = [writer |-> FALSE, readers |-> 0]
    /\ pc = [p \in Goroutines |-> "idle"]
    /\ req = [p \in Goroutines |-> NoReq]
    /\ loc = [p \in Goroutines |-> NoLoc]
    /\ resp = [p \in Goroutines |-> NoResp]
    /\ issued = Ids(n)
    /\ received = Ids(n)
    /\ nReceived = n
    /\ expect = [k \in Ids(n) |-> [src |-> "create",
                                   obj |-> Expected(BodyAnn.obj, k)]]
    /\ deleted = {}
    /\ startID = ToGoInt(n)

Init == Filled(0)

Next ==
    \E p \in Pair :
        \/ CreateEmployee(p, CreateBodies, MaxID)
        \/ GetEmployeeByID(p, PathIds)
        \/ UpdateEmployee(p, UpdateInputs)
        \/ DeleteEmployee(p, PathIds)
        \/ ListEmployees(p, ListInputs)
        \/ Return(p)

Spec == Init /\ [][Next]_vars

(***************************************************************************)
(* CreateSpec: on a store that n earlier creates have filled, every        *)
(* goroutine serves one POST /employees, all of them at the same time.     *)
(***************************************************************************)
CreateInit == \E n \in 0..MaxID : Filled(n)

CreateNext ==
    \E p \in Goroutines : CreateEmployee(p, CreateBodies, MaxID + NumGoroutines)

CreateSpec == CreateInit /\ [][CreateNext]_vars

(***************************************************************************)
(* ListOnlySpec: on a store of up to MaxTotal records, one goroutine       *)
(* serves GET /employees requests with any page and pageSize texts.        *)
(***************************************************************************)
ListInit == \E n \in 0..MaxTotal : Filled(n)

ListNext == ListEmployees(1, QueryTexts \X QueryTexts)

ListOnlySpec == ListInit /\ [][ListNext]_vars

(***************************************************************************)
(* ListTwiceSpec: on a store of up to MaxID records that nothing writes    *)
(* to, two goroutines serve GET /employees requests.                       *)
(***************************************************************************)
ListTwiceNext == \E p \in Pair : ListEmployees(p, ListInputs)

ListTwiceSpec == CreateInit /\ [][ListTwiceNext]_vars

(***************************************************************************)
(* FairSpec: the service under fair scheduling.  The Go scheduler lets     *)
(* every runnable goroutine run, so a handler that can take its next step  *)
(* takes it (weak fairness).  A goroutine waiting in Lock or RLock gets    *)
(* the mutex if it is free again and again (strong fairness): a pending    *)
(* Lock of sync.RWMutex holds new readers off, a released one lets the     *)
(* waiting readers in, and sync.Mutex hands over to a waiter that starves. *)
(* No fairness on taking a new request: clients may stop sending.          *)
(***************************************************************************)
\* the queries of Spec, and one whose (page-1)*pageSize overflows
FairListInputs == ListInputs \cup {<< <<"4">>, TextBig >>}

\* a step of the handler of p that waits for nothing
Progress(p) ==
    \/ CreateInc(p) \/ CreateSetID(p) \/ CreateInsert(p) \/ CreateUnlock(p)
    \/ CreateEncode(p)
    \/ GetLookup(p) \/ GetEncode(p) \/ GetRUnlock(p)
    \/ UpdateCheck(p) \/ UpdateStore(p) \/ UpdateUnlock(p)
    \/ DeleteCheck(p) \/ DeleteRemove(p) \/ DeleteUnlock(p)
    \/ ListRange(p) \/ ListPage(p) \/ ListRUnlock(p)
    \/ Return(p)

\* p gets the mutex
Acquire(p) ==
    \/ CreateLock(p) \/ UpdateLock(p) \/ DeleteLock(p)
    \/ GetRLock(p) \/ ListRLock(p)

FairNext ==
    \E p \in Pair :
        \/ CreateEmployee(p, CreateBodies, MaxID)
        \/ GetEmployeeByID(p, PathIds)
        \/ UpdateEmployee(p, UpdateInputs)
        \/ DeleteEmployee(p, PathIds)
        \/ ListEmployees(p, FairListInputs)
        \/ Return(p)

Fairness == \A p \in Pair : WF_vars(Progress(p)) /\ SF_vars(Acquire(p))

FairSpec == Init /\ [][FairNext]_vars /\ Fairness

(***************************************************************************)
(* UpdateOnlySpec: on a store that n creates have filled, one goroutine    *)
(* serves PUT /employees/{id} requests with every combination of an id     *)
(* text, a Content-Type and a body.                                        *)
(***************************************************************************)
\* id texts: no number, digits and a letter, numbers beyond int, the
\* identifiers of the store and two that are never in it
UpdateIds ==
    {<<"x">>, TextWideX, TextOverX, TextOver, TextBig}
    \cup {IdText(n) : n \in 1..(MaxID + 1)}

UpdateNext == UpdateEmployee(1, UpdateIds \X ContentTypes \X UpdateBodies)

UpdateOnlySpec == CreateInit /\ [][UpdateNext]_vars

(***************************************************************************)
(* Properties.                                                             *)
(***************************************************************************)
\* the goroutines whose create of a decodable payload has been answered
Served ==
    {p \in Goroutines : pc[p] = "return" /\ req[p].op = "create" /\ req[p].body.valid}

\* the identifiers those answers carry
ServedIDs == {resp[p].body[1]["id"] : p \in Served}

\* no handler is under way
Quiet == \A p \in Goroutines : pc[p] \in {"idle", "return"}

\* C1 (CreateSpec): creates that run concurrently on a store whose counter is
\* startID all answer 200 with the record, no two answers carry the same
\* identifier, every identifier lies above startID, and once the N creates
\* are through their identifiers are exactly startID+1 .. startID+N.
C1_ConcurrentCreates ==
    /\ \A p \in Served : resp[p].status = StatusOK /\ resp[p].kind = "object"
    /\ Cardinality(ServedIDs) = Cardinality(Served)
    /\ \A i \in ServedIDs : Less64(startID, i)
    /\ Quiet => ServedIDs = {Add64(startID, i) : i \in Ids(Cardinality(Served))}

\* every goroutine has created, on a counter that was not 0, and the
\* identifiers did not go out in the order of the goroutines
C1_Witness ==
    /\ Quiet
    /\ Served = Goroutines
    /\ startID = ToGoInt(MaxID)
    /\ resp[1].body[1]["id"] = ToGoInt(MaxID + NumGoroutines)
    /\ resp[NumGoroutines].body[1]["id"] = ToGoInt(MaxID + 1)

\* C2 (Spec): lastID never decreases, and the identifier a create assigns is
\* strictly greater than every identifier assigned before, be its record
\* still stored or deleted; the response of the create carries that identifier.
C2_StrictlyIncreasing ==
    [][ /\ ~Less64(lastID', lastID)
        /\ \A p \in Goroutines :
              /\ (pc[p] = "c_setid" /\ pc'[p] = "c_insert") =>
                    \A i \in issued \cup deleted \cup DOMAIN employees :
                        Less64(i, loc'[p].emp.ID)
              /\ (pc[p] = "c_encode" /\ pc'[p] = "return") =>
                    /\ resp'[p].status = StatusOK
                    /\ resp'[p].body[1]["id"] = loc[p].emp.ID
                    /\ loc[p].emp.ID \in issued ]_vars

\* a create has been given an identifier after a record was deleted
C2_Witness ==
    \E p \in Goroutines :
        /\ pc[p] = "c_insert"
        /\ deleted # {}
        /\ \A i \in deleted : Less64(i, loc[p].emp.ID)

\* goroutine p serves a get, has looked the id up and written its response,
\* and still holds the read lock
GetAnswered(p) == pc[p] = "g_runlock"

\* the response of p is 200 with the one JSON object o
Answers(p, o) ==
    /\ resp[p].status = StatusOK
    /\ resp[p].kind = "object"
    /\ resp[p].body = <<o>>

\* C3 (Spec): a get of an identifier that a create has stored, and that no
\* update or delete has touched since, answers 200 with that identifier and
\* the name, position and salary of the create's payload, whatever happened
\* to other identifiers.
C3_GetAfterCreate ==
    \A p \in Goroutines :
        (/\ GetAnswered(p)
         /\ loc[p].id \in DOMAIN expect
         /\ expect[loc[p].id].src = "create")
        => Answers(p, expect[loc[p].id].obj)

\* such a get has answered after another identifier was updated or deleted
C3_Witness ==
    \E p \in Goroutines :
        /\ GetAnswered(p)
        /\ resp[p].status = StatusOK
        /\ loc[p].id \in DOMAIN expect
        /\ expect[loc[p].id].src = "create"
        /\ \E j \in issued \ {loc[p].id} :
              j \in deleted \/ (j \in DOMAIN expect /\ expect[j].src = "update")

\* the identifiers that the payloads of the requests carry
PayloadIDs ==
    {ToGoInt(b.obj["id"]) : b \in {c \in CreateBodies \cup UpdateBodies :
                             c.valid /\ "id" \in DOMAIN c.obj}}

\* C4 (Spec): after a successful update of id the map holds, under id and with
\* identifier id, the name, position and salary of the update's payload, and a
\* get of id answers 200 with them; nothing is stored under or with the
\* identifier the payload carried.
C4_UpdateThenGet ==
    /\ \A id \in DOMAIN expect :
          expect[id].src = "update" =>
             /\ id \in DOMAIN employees
             /\ expect[id].obj["id"] = id
             /\ employees[id] = [ID |-> id, Name |-> expect[id].obj["name"],
                                 Position |-> expect[id].obj["position"],
                                 Salary |-> expect[id].obj["salary"]]
             /\ \A p \in Goroutines :
                   (GetAnswered(p) /\ loc[p].id = id) => Answers(p, expect[id].obj)
    /\ \A k \in DOMAIN employees :
          k \notin PayloadIDs /\ employees[k].ID \notin PayloadIDs

\* a get has answered for an identifier whose last write was an update with a
\* payload that carried another identifier
C4_Witness ==
    \E p \in Goroutines :
        /\ GetAnswered(p)
        /\ resp[p].status = StatusOK
        /\ loc[p].id \in DOMAIN expect
        /\ expect[loc[p].id].src = "update"
        /\ req[p].op = "get"
        /\ PayloadIDs # {}

\* C5 (Spec): once a delete has answered 204 for id, the record is absent for
\* ever: every get, update and delete of id that looks id up afterwards finds
\* nothing and answers 404.
C5_DeletedStaysGone ==
    \A id \in deleted :
        /\ id \notin DOMAIN employees
        /\ \A p \in Goroutines :
              loc[p].id = id =>
                 /\ pc[p] \notin {"g_encode", "u_store", "d_delete"}
                 /\ pc[p] \in {"g_runlock", "u_unlock"} =>
                       resp[p].status = StatusNotFound
                 /\ pc[p] = "d_unlock" =>
                       resp[p].status \in {StatusNotFound, StatusNoContent}

\* a get of a deleted identifier has answered 404 after a later create
C5_Witness ==
    \E p \in Goroutines :
        /\ GetAnswered(p)
        /\ loc[p].id \in deleted
        /\ resp[p].status = StatusNotFound
        /\ \E k \in DOMAIN employees : Less64(loc[p].id, k)

\* C6 (Spec): an update of an identifier that is not in the map answers 404, and
\* none of its steps changes the map or lastID.
C6_UpdateAbsent ==
    [][ \A p \in Goroutines :
          (/\ pc[p] \in {"u_check", "u_store", "u_unlock"}
           /\ pc'[p] # pc[p]
           /\ loc[p].id \notin DOMAIN employees)
          => /\ employees' = employees
             /\ lastID' = lastID
             /\ IF pc[p] = "u_check"
                THEN resp'[p].status = StatusNotFound /\ pc'[p] = "u_unlock"
                ELSE resp[p].status = StatusNotFound ]_vars

\* an update has answered 404 on a store that holds other records
C6_Witness ==
    \E p \in Goroutines :
        /\ pc[p] = "u_unlock"
        /\ resp[p].status = StatusNotFound
        /\ DOMAIN employees # {}

\* C7 (Spec): a delete of an identifier that is not in the map answers 404 and
\* changes neither the map nor lastID; a delete of one that is there answers
\* 204, removes that key and leaves every other record and lastID as they were.
C7_DeleteExactlyOne ==
    [][ \A p \in Goroutines :
          (pc[p] \in {"d_check", "d_delete", "d_unlock"} /\ pc'[p] # pc[p])
          => /\ lastID' = lastID
             /\ pc[p] # "d_delete" => employees' = employees
             /\ (pc[p] = "d_check" /\ loc[p].id \notin DOMAIN employees)
                   => resp'[p].status = StatusNotFound /\ pc'[p] = "d_unlock"
             /\ (pc[p] = "d_check" /\ loc[p].id \in DOMAIN employees)
                   => pc'[p] = "d_delete"
             /\ pc[p] = "d_delete"
                   => /\ resp'[p].status = StatusNoContent
                      /\ DOMAIN employees' = DOMAIN employees \ {loc[p].id}
                      /\ \A k \in DOMAIN employees' : employees'[k] = employees[k] ]_vars

\* a delete has answered 204 and another record is still there
C7_Witness ==
    \E p \in Goroutines :
        /\ pc[p] = "d_unlock"
        /\ resp[p].status = StatusNoContent
        /\ DOMAIN employees # {}

(***************************************************************************)
(* Pagination as the specification words it, on mathematical integers.     *)
(* Numbers from 2^15 on are all taken as 2^15: a store never has that many *)
(* records, so which of them start is makes no difference to the page.     *)
(***************************************************************************)
Far == 2^15

\* the value of the non-negative int a, or Far when it is that large
Near(a) ==
    IF a[2] < Base \div 2 /\ \A i \in 3..NLimbs : a[i] = 0
    THEN a[1] + Base * a[2] ELSE Far

\* the sub-sequence [start, end) of snapshot for start = (page-1)*pageSize
\* and end = min(start+pageSize, total)
SpecifiedPage(snapshot, page, pageSize) ==
    LET total == Len(snapshot)
        start == Near(Sub64(page, One64)) * Near(pageSize)
        end   == IF start + Near(pageSize) < total THEN start + Near(pageSize)
                 ELSE total
    IN  IF start >= total THEN <<>> ELSE SubSeq(snapshot, start + 1, end)

\* goroutine p has cut its page and written it, and still holds the read lock
ListAnswered(p) == pc[p] = "l_runlock"

\* the response of p is 200 with the JSON array of these records
AnswersPage(p, records) ==
    /\ resp[p].status = StatusOK
    /\ resp[p].kind = "array"
    /\ resp[p].body = [i \in 1..Len(records) |->
                         [id |-> records[i].ID, name |-> records[i].Name,
                          position |-> records[i].Position,
                          salary |-> records[i].Salary]]

\* C8 (ListOnlySpec): for every page >= 1 and pageSize >= 1 the list answers
\* 200 with the sub-sequence [start, end) of its snapshot, start =
\* (page-1)*pageSize and end = min(start+pageSize, total): nothing when
\* start >= total.
C8_PageIsSubsequence ==
    \A p \in Goroutines :
        ListAnswered(p) =>
            AnswersPage(p, SpecifiedPage(loc[p].employeeList, loc[p].page,
                                         loc[p].pageSize))

\* the same for the pages and page sizes whose product TLC can hold: the
\* pagination is as specified wherever (page-1)*pageSize does not overflow
PageInRange ==
    \A p \in Goroutines :
        (/\ ListAnswered(p)
         /\ Near(Sub64(loc[p].page, One64)) < Far
         /\ Near(loc[p].pageSize) < Far)
        => AnswersPage(p, SpecifiedPage(loc[p].employeeList, loc[p].page,
                                        loc[p].pageSize))

\* what strconv makes of the query texts: the value of a decimal text within
\* the range of int; "above" and "below" for decimal texts beyond the two
\* ends of int, and for texts that begin with an optional sign and digits
\* whose value is beyond 64 bits, whatever follows those digits; "none" for
\* every other text, absent or no decimal number
Meaning(text) ==
    CASE text = <<>>         -> [is |-> "none", val |-> Zero64]
      [] text = <<"x">>      -> [is |-> "none", val |-> Zero64]
      [] text = <<"0">>      -> [is |-> "int", val |-> Zero64]
      [] text = <<"-", "1">> -> [is |-> "int", val |-> [i \in 1..NLimbs |-> Base - 1]]
      [] text = <<"1">>      -> [is |-> "int", val |-> NatLimbs(1, NLimbs)]
      [] text = <<"2">>      -> [is |-> "int", val |-> NatLimbs(2, NLimbs)]
      [] text = <<"3">>      -> [is |-> "int", val |-> NatLimbs(3, NLimbs)]
      [] text = <<"4">>      -> [is |-> "int", val |-> NatLimbs(4, NLimbs)]
      [] text = TextBig      -> [is |-> "int",
                                 val |-> [i \in 1..NLimbs |->
                                            IF i = 1 THEN 1
                                            ELSE IF i = NLimbs THEN Base \div 4
                                            ELSE 0]]
      [] text = TextMax      -> [is |-> "int", val |-> MaxInt64]
      [] text = TextOver     -> [is |-> "above", val |-> MaxInt64]
      [] text = TextUnder    -> [is |-> "below", val |-> MinInt64]
      [] text = TextWideX    -> [is |-> "none", val |-> Zero64]
      [] text = TextOverX    -> [is |-> "above", val |-> MaxInt64]
      [] text = TextUnderX   -> [is |-> "below", val |-> MinInt64]

\* goroutine p serves a list and has its page and pageSize
ListParsed(p) == pc[p] \in {"l_rlock", "l_range", "l_runlock"}

\* C9 as claimed (ListOnlySpec): the list never answers 400; a page or
\* pageSize that is absent or does not parse as an integer is the default, 1
\* or 10; one that parses and is below 1 is 1.
C9_AsClaimed ==
    \A p \in Goroutines :
        /\ req[p].op = "list" => pc[p] # "return" /\ resp[p].status # StatusBadRequest
        /\ ListParsed(p) =>
              LET pg == Meaning(req[p].page)
                  sz == Meaning(req[p].pageSize)
              IN  /\ loc[p].page =
                        IF pg.is # "int" \/ IsNeg64(pg.val) \/ pg.val = Zero64
                        THEN NatLimbs(1, NLimbs) ELSE pg.val
                  /\ loc[p].pageSize =
                        IF sz.is # "int" THEN NatLimbs(10, NLimbs)
                        ELSE IF IsNeg64(sz.val) \/ sz.val = Zero64
                        THEN NatLimbs(1, NLimbs) ELSE sz.val

\* C9 as amended (ListOnlySpec): the list never answers 400; a page or
\* pageSize that is absent, that strconv.Atoi rejects with a syntax error, or
\* that is a decimal number below 1 (also one below the range of int, and a
\* minus followed by digits beyond 64 bits and anything else) is the default,
\* 1 for page and 10 for pageSize; a decimal number above the range of int,
\* and digits beyond 64 bits followed by anything else, is the greatest int.
C9_Defaults ==
    \A p \in Goroutines :
        /\ req[p].op = "list" => pc[p] # "return" /\ resp[p].status # StatusBadRequest
        /\ ListParsed(p) =>
              LET pg == Meaning(req[p].page)
                  sz == Meaning(req[p].pageSize)
                  Low(m) == m.is \in {"none", "below"} \/ IsNeg64(m.val)
                               \/ m.val = Zero64
              IN  /\ loc[p].page =
                        IF Low(pg) THEN NatLimbs(1, NLimbs) ELSE pg.val
                  /\ loc[p].pageSize =
                        IF Low(sz) THEN NatLimbs(10, NLimbs) ELSE sz.val

\* a list was asked for pageSize 0 and for a page beyond the range of int
C9_Witness ==
    \E p \in Goroutines :
        /\ ListAnswered(p)
        /\ req[p].pageSize = <<"0">>
        /\ req[p].page = TextOver
        /\ loc[p].pageSize = NatLimbs(10, NLimbs)
        /\ loc[p].page = MaxInt64

\* the goroutines inside a critical section of a writer, and of a reader
Writing ==
    {p \in Goroutines :
        pc[p] \in {"c_inc", "c_setid", "c_insert", "c_unlock", "u_check",
                   "u_store", "u_unlock", "d_check", "d_delete", "d_unlock"}}

Reading ==
    {p \in Goroutines :
        pc[p] \in {"g_lookup", "g_encode", "g_runlock", "l_range", "l_runlock"}}

\* C10 (Spec): while a create, update or delete is inside its critical section
\* no other goroutine is inside one; so the record a get has read, and the
\* response it has written, are the whole record the map holds under that id
\* until the get lets go of the lock: never parts of an old and a new one.
C10_WritersExclude ==
    /\ Writing # {} => Cardinality(Writing) = 1 /\ Reading = {}
    /\ \A p \in Goroutines :
          /\ pc[p] = "g_encode" =>
                /\ loc[p].id \in DOMAIN employees
                /\ loc[p].emp = employees[loc[p].id]
          /\ (GetAnswered(p) /\ resp[p].status = StatusOK) =>
                /\ loc[p].id \in DOMAIN employees
                /\ LET e == employees[loc[p].id]
                   IN  Answers(p, [id |-> e.ID, name |-> e.Name,
                                   position |-> e.Position, salary |-> e.Salary])

\* an update is about to replace a record while a get of the same id waits
C10_Witness ==
    \E p, q \in Goroutines :
        /\ pc[p] = "u_store"
        /\ pc[q] = "g_rlock"
        /\ loc[q].id = loc[p].id
        /\ Writing = {p}

\* two readers are inside their critical sections at the same time
ReadersOverlap == Cardinality(Reading) > 1

\* C11 (ListTwiceSpec): the store never changes, so any two lists that were
\* asked for the same page and pageSize answer the same records in the same
\* order.
C11_SameOrder ==
    \A p, q \in Goroutines :
        (/\ ListAnswered(p)
         /\ ListAnswered(q)
         /\ req[p].page = req[q].page
         /\ req[p].pageSize = req[q].pageSize)
        => resp[p] = resp[q]

\* what the range over the map does keep: two lists of the whole store answer
\* the same records, in whatever order
SameRecords ==
    \A p, q \in Goroutines :
        (/\ ListAnswered(p)
         /\ ListAnswered(q)
         /\ req[p].page = <<>> /\ req[q].page = <<>>
         /\ req[p].pageSize = <<>> /\ req[q].pageSize = <<>>)
        => {resp[p].body[i] : i \in DOMAIN resp[p].body}
              = {resp[q].body[i] : i \in DOMAIN resp[q].body}

\* the mutex is held by exactly the goroutines inside a critical section:
\* whoever has left its handler, on whatever path, has let go of it
LockAccounting ==
    /\ mutex.writer = (Writing # {})
    /\ mutex.readers = Cardinality(Reading)

\* every request that was taken is served to its end
Terminates == \A p \in Goroutines : (pc[p] # "idle") ~> (pc[p] = "idle")

\* a handler that returns has written a response
Responds ==
    [][ \A p \in Goroutines :
          (pc[p] # "idle" /\ pc'[p] = "idle") => resp[p].status # 0 ]_vars

\* C12 (FairSpec): under fair scheduling every request ends, with a response
\* written and with the mutex released on whatever path the handler took, so
\* that no goroutine waits for the mutex for ever.
C12_RunsToCompletion ==
    /\ Terminates
    /\ Responds
    /\ []LockAccounting

\* a list has ended on the panic of its slice expression, the read lock
\* still held until the deferred RUnlock
ListPanicked == \E p \in Goroutines : pc[p] = "l_runlock" /\ resp[p] = PanicResp

\* a get, an update and a delete each have answered 404 and are still inside
\* their critical section
EarlyReturns ==
    \E p \in Goroutines :
        /\ pc[p] \in {"g_runlock", "u_unlock", "d_unlock"}
        /\ resp[p].status = StatusNotFound

\* what does hold of the responses: a handler returns without one only when
\* the slice expression of ListEmployees panicked
RespondsOrPanics ==
    [][ \A p \in Goroutines :
          (pc[p] # "idle" /\ pc'[p] = "idle") =>
             \/ resp[p].status # 0
             \/ req[p].op = "list" /\ resp[p] = PanicResp ]_vars

\* the creates that have left their critical section: those that have
\* answered, and those that have unlocked and not yet answered
CreatesThrough == nReceived + Cardinality({p \in Goroutines : pc[p] = "c_encode"})

\* C13 (Spec): whenever no writer holds the mutex, and so whenever a reader is
\* inside its critical section, lastID is the number of creates that have left
\* their critical section, the identifiers issued are exactly 1..lastID, and
\* each of them is a key of the map unless a delete has removed it; the map
\* has no other keys.
C13_AtomicCreate ==
    (~mutex.writer \/ Reading # {}) =>
        /\ lastID = ToGoInt(CreatesThrough)
        /\ issued = Ids(CreatesThrough)
        /\ \A i \in Ids(CreatesThrough) : i \in DOMAIN employees \/ i \in deleted
        /\ DOMAIN employees \subseteq Ids(CreatesThrough)

\* a get looks up the identifier of a create that has just left its critical
\* section and has not answered yet, after an earlier record was deleted
C13_Witness ==
    \E p, q \in Goroutines :
        /\ pc[p] = "c_encode"
        /\ pc[q] = "g_lookup"
        /\ loc[q].id = loc[p].emp.ID
        /\ loc[q].id \in DOMAIN employees
        /\ deleted # {}

\* C14 (ListOnlySpec): whenever (page-1)*pageSize, as a mathematical integer,
\* is at least the number of records, the list answers 200 with the empty
\* array, also for pages and page sizes whose product does not fit an int: it
\* neither returns records nor ends without a response.
C14_BeyondRangeIsEmpty ==
    \A p \in Goroutines :
        (/\ ListAnswered(p)
         /\ Near(Sub64(loc[p].page, One64)) * Near(loc[p].pageSize)
               >= Len(loc[p].employeeList))
        => AnswersPage(p, <<>>)

\* a list has answered records for a page that lies beyond the last record
RecordsBeyondRange ==
    \E p \in Goroutines :
        /\ ListAnswered(p)
        /\ Near(Sub64(loc[p].page, One64)) * Near(loc[p].pageSize)
              >= Len(loc[p].employeeList)
        /\ resp[p].kind = "array"
        /\ resp[p].body # <<>>

\* goroutine p serves, or has just answered, an update
Updating(p) == req[p].op = "update"

\* the id text of the request of p stands for an int
IdParses(p) == Meaning(req[p].id).is = "int"

\* the identifier that text stands for
IdOf(p) == Meaning(req[p].id).val

\* p has been turned away with this status before it asked for the mutex
TurnedAway(p, code) == pc[p] = "return" /\ resp[p] = ErrorResp(code)

\* C15 (UpdateOnlySpec): an update whose id does not parse answers 400;
\* otherwise one whose Content-Type is not exactly application/json answers
\* 415, whatever its body and whether or not the id is stored; otherwise one
\* whose body does not decode answers 400; otherwise one whose id is not
\* stored answers 404, and only the remaining ones answer 200.  No step of an
\* update that fails changes the map or lastID.
C15_ValidationOrder ==
    /\ [](\A p \in Goroutines :
            Updating(p) =>
               IF ~IdParses(p) THEN TurnedAway(p, StatusBadRequest)
               ELSE IF req[p].ctype # "application/json"
               THEN TurnedAway(p, StatusUnsupportedMediaType)
               ELSE IF ~req[p].body.valid THEN TurnedAway(p, StatusBadRequest)
               ELSE /\ pc[p] \in {"u_lock", "u_check", "u_store", "u_unlock"}
                    /\ pc[p] = "u_store" => IdOf(p) \in DOMAIN employees
                    /\ pc[p] = "u_unlock" =>
                          IF IdOf(p) \in DOMAIN employees
                          THEN resp[p].status = StatusOK
                          ELSE resp[p] = ErrorResp(StatusNotFound))
    /\ [][ \A p \in Goroutines :
             (Updating(p) /\ pc'[p] # pc[p] /\ pc[p] # "u_store")
             => employees' = employees /\ lastID' = lastID ]_vars
    /\ [][ \A p \in Goroutines :
             (pc[p] = "idle" /\ Updating(p)') => employees' = employees /\ lastID' = lastID ]_vars

\* an update with the wrong Content-Type, a body that does not decode and an
\* id that is not stored has answered 415, on a store that holds records
C15_Witness ==
    \E p \in Goroutines :
        /\ TurnedAway(p, StatusUnsupportedMediaType)
        /\ Updating(p)
        /\ IdParses(p)
        /\ IdOf(p) \notin DOMAIN employees
        /\ ~req[p].body.valid
        /\ DOMAIN employees # {}

\* goroutine p has been turned away with a create whose payload did not decode
CreateRejected(p) ==
    /\ req[p].op = "create"
    /\ ~req[p].body.valid

\* the creates that have incremented lastID: those past lastID++ and those
\* that have answered
CreatesCounted ==
    nReceived + Cardinality({p \in Goroutines :
                                pc[p] \in {"c_setid", "c_insert", "c_unlock", "c_encode"}})

\* C16 (Spec): a create whose payload does not decode answers 400 and never
\* gets to the mutex, and taking it changes neither the map nor lastID; lastID
\* changes only by the lastID++ of a create whose payload decoded, by one, so
\* it counts those creates, and such a create is given that lastID + 1
\* whatever creates were turned away before.
C16_RejectedCreate ==
    /\ [](\A p \in Goroutines :
            CreateRejected(p) => TurnedAway(p, StatusBadRequest) /\ loc[p] = NoLoc)
    /\ [](lastID = ToGoInt(CreatesCounted))
    /\ [][ \A p \in Goroutines :
             (pc[p] = "idle" /\ CreateRejected(p)')
             => employees' = employees /\ lastID' = lastID ]_vars
    /\ [][ lastID' # lastID =>
             \E p \in Goroutines :
                /\ pc[p] = "c_inc" /\ pc'[p] = "c_setid"
                /\ req[p].body.valid
                /\ lastID' = Add64(lastID, One64) ]_vars
    /\ [][ \A p \in Goroutines :
             (pc[p] = "c_setid" /\ pc'[p] = "c_insert")
             => loc'[p].emp.ID = lastID /\ lastID = ToGoInt(CreatesCounted) ]_vars

\* a create has been given the identifier MaxID while a create that was turned
\* away has not returned yet
C16_Witness ==
    \E p, q \in Goroutines :
        /\ CreateRejected(q)
        /\ TurnedAway(q, StatusBadRequest)
        /\ pc[p] = "c_insert"
        /\ loc[p].emp.ID = ToGoInt(MaxID)
        /\ lastID = ToGoInt(MaxID)

\* list holds each record of store once and nothing else
IsSnapshot(list, store) ==
    /\ Len(list) = Cardinality(DOMAIN store)
    /\ \A k \in DOMAIN store : \E i \in 1..Len(list) : list[i] = store[k]

\* C17 (Spec): from its first iteration to its return a list holds the read
\* lock and no step changes the map; what it has collected are the records the
\* map holds under the keys it has visited; when it answers, the total it
\* paginates over is the size of that map and the page is cut from a sequence
\* of exactly the records of that map: one state of the store, also while
\* creates, updates and deletes are waiting or have run just before.
C17_OneSnapshot ==
    /\ [](\A p \in Goroutines :
            pc[p] \in {"l_range", "l_runlock"} =>
               /\ ~mutex.writer /\ Writing = {}
               /\ loc[p].ranged \subseteq DOMAIN employees
               /\ IsSnapshot(loc[p].employeeList,
                             [k \in loc[p].ranged |-> employees[k]])
               /\ ListAnswered(p) =>
                     /\ IsSnapshot(loc[p].employeeList, employees)
                     /\ AnswersPage(p, SpecifiedPage(loc[p].employeeList,
                                                     loc[p].page, loc[p].pageSize))
                     /\ \A i \in DOMAIN resp[p].body :
                           \E k \in DOMAIN employees :
                              resp[p].body[i] = Encode(employees[k]))
    /\ [][ (\E p \in Goroutines : pc[p] \in {"l_range", "l_runlock"})
           => employees' = employees /\ lastID' = lastID ]_vars

\* a list has answered records after an update and a delete have changed the
\* store, while another goroutine waits to write
C17_Witness ==
    \E p, q \in Goroutines :
        /\ ListAnswered(p)
        /\ resp[p].body # <<>>
        /\ pc[q] \in {"c_lock", "u_lock", "d_lock"}
        /\ deleted # {}
        /\ \E k \in DOMAIN expect : expect[k].src = "update"

\* C18 (Spec): every record of the map has its key as its ID, and every key
\* is one of the identifiers 1..lastID the counter has given out, although the
\* payloads of the creates and updates carry other identifiers.
C18_KeyIsOwnID ==
    \A k \in DOMAIN employees :
        /\ employees[k].ID = k
        /\ Less64(Zero64, k) /\ ~Less64(lastID, k)
        /\ k \in issued

\* the map holds a record a create stored and a record an update stored, and
\* the payloads of both carried an identifier that is no key
C18_Witness ==
    /\ \E k, j \in DOMAIN employees :
          /\ expect[k].src = "create"
          /\ expect[j].src = "update"
    /\ \A b \in CreateBodies \cup UpdateBodies :
          b.valid => /\ "id" \in DOMAIN b.obj
                     /\ ToGoInt(b.obj["id"]) \notin DOMAIN employees

\* the step is one of goroutine p
Moved(p) == pc'[p] # pc[p] \/ loc'[p] # loc[p]

\* the operation the step of p belongs to
OpOf(p) == IF pc[p] = "idle" THEN req'[p].op ELSE req[p].op

\* the map after the step differs from the map before in the record under key
\* k at most, which is there afterwards
ChangesOnly(k) ==
    /\ DOMAIN employees' = DOMAIN employees \cup {k}
    /\ \A j \in DOMAIN employees \ {k} : employees'[j] = employees[j]

\* C19 (Spec): no step of an update, a delete, a get or a list changes lastID,
\* and none of a get or a list changes the map; the step of an update that
\* stores changes the record under the path id and no other, and changes no
\* key; the step of a create that inserts adds the record under the new
\* lastID and changes no other; no other step of an update or a create
\* changes the map.
C19_Frame ==
    [][ \A p \in Goroutines :
          Moved(p) =>
             /\ OpOf(p) \in {"update", "delete", "get", "list"} => lastID' = lastID
             /\ lastID' # lastID => OpOf(p) = "create" /\ pc[p] = "c_inc"
             /\ OpOf(p) \in {"get", "list"} => employees' = employees
             /\ OpOf(p) = "update" =>
                   IF pc[p] = "u_store"
                   THEN /\ ChangesOnly(loc[p].id)
                        /\ DOMAIN employees' = DOMAIN employees
                        /\ employees'[loc[p].id] = loc[p].emp
                   ELSE employees' = employees
             /\ OpOf(p) = "create" =>
                   IF pc[p] = "c_insert"
                   THEN /\ ChangesOnly(lastID)
                        /\ lastID \notin DOMAIN employees
                        /\ employees'[lastID] = loc[p].emp
                   ELSE employees' = employees ]_vars

\* an update has stored its record on a store that holds another record, and
\* lastID is what the creates left it at
C19_Witness ==
    \E p \in Goroutines :
        /\ pc[p] = "u_unlock"
        /\ resp[p].status = StatusOK
        /\ \E j \in DOMAIN employees :
              j # loc[p].id /\ expect[j].src = "create"
        /\ lastID = ToGoInt(MaxID)
=============================================================================
